---- MODULE Spec2Model ----
(***************************************************************************)
(* axum-typed-routing-macros: the route template parser                    *)
(* (parsing.rs), the route compiler (compilation.rs) and the code emitter  *)
(* (lib.rs, _route), as a state machine over a batch of macro invocations. *)
(*                                                                         *)
(* Text is a sequence of one-character strings: the template "/a?b" is     *)
(* <<"/", "a", "?", "b">>.  A doc line or a metadata string is a sequence  *)
(* of characters too, so that joining lines is a real computation.         *)
(***************************************************************************)
EXTENDS Integers, Sequences, FiniteSets, TLC

VARIABLES
    input,      \* per invocation: the attribute tokens, the handler, the mode
    pc,         \* per invocation: position in _route
    route,      \* per invocation: the parsed Route (parsing.rs), or None
    compiled,   \* per invocation: the CompiledRoute, or None
    error,      \* per invocation: the syn::Error returned / panic raised, or None
    emitted,    \* per invocation: what _route's generated code contains, or None
    operation   \* per invocation: the aide operation built at registration, or None

vars == <<input, pc, route, compiled, error, emitted, operation>>

----------------------------------------------------------------------------
(* Option<T> *)

None == <<>>

Some(x) == <<x>>

IsSome(o) == Len(o) = 1

IsNone(o) == Len(o) = 0

Unwrap(o) == o[1]

----------------------------------------------------------------------------
(* Text helpers: str::split, str::starts_with, str::strip_prefix *)

\* str::starts_with(c)
StartsWith(s, c) == Len(s) > 0 /\ s[1] = c

\* str::strip_prefix(c).unwrap(), used only after starts_with(c)
StripPrefix(s) == SubSeq(s, 2, Len(s))

\* Index of the first occurrence of c in s at or after i, or Len(s) + 1
RECURSIVE FindFrom(_, _, _)
FindFrom(s, c, i) ==
    IF i > Len(s) THEN Len(s) + 1
    ELSE IF s[i] = c THEN i
    ELSE FindFrom(s, c, i + 1)

\* str::split(c): n occurrences of c give n + 1 pieces, empty pieces included
RECURSIVE SplitFrom(_, _, _)
SplitFrom(s, c, i) ==
    LET j == FindFrom(s, c, i)
    IN  IF j > Len(s) THEN << SubSeq(s, i, Len(s)) >>
        ELSE << SubSeq(s, i, j - 1) >> \o SplitFrom(s, c, j + 1)

Split(s, c) == SplitFrom(s, c, 1)

\* Characters an identifier may contain (the letters the model uses, and '_')
IdentChars ==
    {"a", "b", "c", "d", "e", "f", "g", "h", "i", "j", "k", "l", "m", "n",
     "o", "p", "q", "r", "s", "t", "u", "v", "w", "x", "y", "z", "_"}

\* proc_macro2::Ident::new(str, span) panics unless str is a valid identifier
IdentNewPanics(str) ==
    \/ Len(str) = 0
    \/ \E i \in 1..Len(str) : str[i] \notin IdentChars

----------------------------------------------------------------------------
(* Types (syn::Type), as far as guess_state_type inspects them *)

\* A generic argument that is a type / a lifetime (syn::GenericArgument)
TypeArg(t) == [kind |-> "Type", ty |-> t]

LifetimeArg == [kind |-> "Lifetime", ty |-> None]

\* syn::Type::Path whose last segment is name<args>
PathType(name, args) == [kind |-> "Path", last |-> name, args |-> args]

\* A type that is not a path: a reference, here &State<String>
RefType(name) == [kind |-> "Reference", last |-> name, args |-> <<>>]

\* parse_quote!(()) : the unit type
UnitType == [kind |-> "Tuple", last |-> "()", args |-> <<>>]

----------------------------------------------------------------------------
(* parsing.rs: PathParam and RouteParser *)

\* PathParam::new stripping the '*' of a token it makes a static segment of
PathParamNewStripsStar(str) ==
    IF StartsWith(str, ":")
    THEN [kind |-> "Capture", lit |-> StripPrefix(str),
          ident |-> StripPrefix(str), ty |-> UnitType]
    ELSE IF StartsWith(str, "*") /\ Len(str) > 1
    THEN [kind |-> "WildCard", lit |-> StripPrefix(str),
          ident |-> StripPrefix(str), ty |-> UnitType]
    ELSE IF StartsWith(str, "*")
    THEN [kind |-> "Static", lit |-> StripPrefix(str), ident |-> <<>>, ty |-> UnitType]
    ELSE [kind |-> "Static", lit |-> str, ident |-> <<>>, ty |-> UnitType]

\* PathParam::new
PathParamNew(str) ==
    IF StartsWith(str, ":")
    THEN [kind |-> "Capture", lit |-> StripPrefix(str),
          ident |-> StripPrefix(str), ty |-> UnitType]
    ELSE IF StartsWith(str, "*") /\ Len(str) > 1
    THEN [kind |-> "WildCard", lit |-> StripPrefix(str),
          ident |-> StripPrefix(str), ty |-> UnitType]
    ELSE [kind |-> "Static", lit |-> str, ident |-> <<>>, ty |-> UnitType]

\* PathParam::new reaches Ident::new for a capture and for a wildcard only
PathParamNewPanics(str) ==
    /\ PathParamNew(str).kind \in {"Capture", "WildCard"}
    /\ IdentNewPanics(PathParamNew(str).ident)

\* PathParam::captures
Captures(p) == p.kind \in {"Capture", "WildCard"}

\* The position check of RouteParser::new on the classified segments
WildcardMisplaced(path_params) ==
    \E i \in 1..Len(path_params) :
        /\ i # Len(path_params)
        /\ \/ path_params[i].kind = "WildCard"
           \/ path_params[i].kind = "Static" /\ path_params[i].lit = <<"*">>

ErrTooManyQuestionMarks == "expected at most one '?'"

ErrNoLeadingSlash == "expected path to start with '/'"

ErrWildcardNotLast == "wildcard path param must be the last path param"

Failure(kind, msg, ident) == [tag |-> "Err", kind |-> kind, msg |-> msg, ident |-> ident]

Panic(msg) == [tag |-> "Panic", kind |-> "panic", msg |-> msg, ident |-> <<>>]

\* RouteParser::new without the test for the leading '/'
RouteParserNewAnyStart(val) ==
    LET split_route == Split(val, "?")
        path        == StripPrefix(split_route[1])
        tokens      == Split(path, "/")
        path_params == [i \in 1..Len(tokens) |-> PathParamNew(tokens[i])]
        query       == IF Len(split_route) = 2 THEN Split(split_route[2], "&") ELSE <<>>
    IN  IF Len(split_route) > 2
        THEN Failure("grammar", ErrTooManyQuestionMarks, <<>>)
        ELSE IF \E i \in 1..Len(tokens) : PathParamNewPanics(tokens[i])
        THEN Panic("Ident::new")
        ELSE IF WildcardMisplaced(path_params)
        THEN Failure("grammar", ErrWildcardNotLast, <<>>)
        ELSE IF \E i \in 1..Len(query) : IdentNewPanics(query[i])
        THEN Panic("Ident::new")
        ELSE [tag |-> "Ok", path_params |-> path_params, query_params |-> query]

\* RouteParser::new, in the order the code runs its checks
RouteParserNew(val) ==
    LET split_route == Split(val, "?")
        path        == StripPrefix(split_route[1])
        tokens      == Split(path, "/")
        path_params == [i \in 1..Len(tokens) |-> PathParamNew(tokens[i])]
        query       == IF Len(split_route) = 2 THEN Split(split_route[2], "&") ELSE <<>>
    IN  IF Len(split_route) > 2
        THEN Failure("grammar", ErrTooManyQuestionMarks, <<>>)
        ELSE IF ~StartsWith(split_route[1], "/")
        THEN Failure("grammar", ErrNoLeadingSlash, <<>>)
        ELSE IF \E i \in 1..Len(tokens) : PathParamNewPanics(tokens[i])
        THEN Panic("Ident::new")
        ELSE IF WildcardMisplaced(path_params)
        THEN Failure("grammar", ErrWildcardNotLast, <<>>)
        ELSE IF \E i \in 1..Len(query) : IdentNewPanics(query[i])
        THEN Panic("Ident::new")
        ELSE [tag |-> "Ok", path_params |-> path_params, query_params |-> query]

----------------------------------------------------------------------------
(* parsing.rs: Method, OapiOptions, Route *)

Methods == {"GET", "POST", "PUT", "DELETE", "HEAD", "CONNECT", "OPTIONS", "TRACE"}

\* str::to_uppercase on the method identifiers the model feeds in
ToUppercase(s) ==
    CASE s = "get" -> "GET"
      [] s = "post" -> "POST"
      [] s = "patch" -> "PATCH"
      [] OTHER -> s

ErrMethod == "expected one of (GET, POST, PUT, DELETE, HEAD, CONNECT, OPTIONS, TRACE)"

\* Method::parse
MethodParse(ident) ==
    IF ToUppercase(ident) \in Methods
    THEN [tag |-> "Ok", method |-> ToUppercase(ident)]
    ELSE Failure("method", ErrMethod, <<>>)

\* Method::to_axum_method_name
ToAxumMethodName(method) ==
    CASE method = "GET" -> "get"
      [] method = "POST" -> "post"
      [] method = "PUT" -> "put"
      [] method = "DELETE" -> "delete"
      [] method = "HEAD" -> "head"
      [] method = "CONNECT" -> "connect"
      [] method = "OPTIONS" -> "options"
      [] method = "TRACE" -> "trace"

\* The OapiOptions with every field None (OapiOptions::parse on an empty block,
\* and the value from_route installs in metadata mode)
EmptyOptions ==
    [summary |-> None, description |-> None, id |-> None, hidden |-> None,
     tags |-> None, security |-> None, responses |-> None, transform |-> None]

\* Route::parse: method, template literal, optional with <STATE>, optional block
RouteParse(attr) ==
    LET m == MethodParse(attr.method)
        r == RouteParserNew(attr.lit)
    IN  IF m.tag # "Ok" THEN m
        ELSE IF r.tag # "Ok" THEN r
        ELSE [tag |-> "Ok",
              route |-> [method       |-> m.method,
                         path_params  |-> r.path_params,
                         query_params |-> r.query_params,
                         state        |-> attr.state,
                         route_lit    |-> attr.lit,
                         oapi_options |-> attr.oapi_options]]

\* doc_iter: the values of the doc attributes, in order
RECURSIVE DocIter(_)
DocIter(attrs) ==
    IF attrs = <<>> THEN <<>>
    ELSE IF Head(attrs).path = "doc"
    THEN <<Head(attrs).value>> \o DocIter(Tail(attrs))
    ELSE DocIter(Tail(attrs))

\* The doc attributes themselves, in order (what doc_iter's filter lets through)
RECURSIVE DocAttrs(_)
DocAttrs(attrs) ==
    IF attrs = <<>> THEN <<>>
    ELSE IF Head(attrs).path = "doc" THEN <<Head(attrs)>> \o DocAttrs(Tail(attrs))
    ELSE DocAttrs(Tail(attrs))

\* doc_iter's map panics on a doc attribute that is not #[doc = "..."].
\* The iterator is lazy: consuming it whole (skip(2)..reduce) meets every doc
\* attribute, next() meets only the first.
DocIterPanicsAll(attrs) ==
    \E i \in 1..Len(DocAttrs(attrs)) : DocAttrs(attrs)[i].meta # "NameValue"

DocIterPanicsFirst(attrs) ==
    Len(DocAttrs(attrs)) > 0 /\ DocAttrs(attrs)[1].meta # "NameValue"

\* Iterator::reduce with push('\n') / push_str over the lines from index i on
RECURSIVE JoinLines(_, _)
JoinLines(lines, i) ==
    IF i > Len(lines) THEN <<>>
    ELSE IF i = Len(lines) THEN lines[i]
    ELSE lines[i] \o <<"\n">> \o JoinLines(lines, i + 1)

\* The description taken from the second doc line on: skip(1) for skip(2)
DeriveDescriptionSkipOne(attrs) ==
    IF Len(DocIter(attrs)) > 1 THEN Some(JoinLines(DocIter(attrs), 2)) ELSE None

\* The description with the second doc line skipped only when it is blank
DeriveDescriptionSkipBlank(attrs) ==
    IF Len(DocIter(attrs)) > 1 /\ DocIter(attrs)[2] # <<>>
    THEN Some(JoinLines(DocIter(attrs), 2))
    ELSE IF Len(DocIter(attrs)) > 2 THEN Some(JoinLines(DocIter(attrs), 3))
    ELSE None

\* doc_iter(..).skip(2).map(value).reduce(..): None when fewer than three lines
DeriveDescription(attrs) ==
    IF Len(DocIter(attrs)) > 2 THEN Some(JoinLines(DocIter(attrs), 3)) ELSE None

\* doc_iter(..).next()
DeriveSummary(attrs) ==
    IF Len(DocIter(attrs)) > 0 THEN Some(DocIter(attrs)[1]) ELSE None

\* merge_with_fn with the description derived only when the summary is derived too
MergeWithFnNested(options, function) ==
    IF IsNone(options.description) /\ DocIterPanicsAll(function.attrs)
    THEN Panic("doc attribute is not a name-value attribute")
    ELSE IF IsNone(options.summary) /\ DocIterPanicsFirst(function.attrs)
    THEN Panic("doc attribute is not a name-value attribute")
    ELSE [tag |-> "Ok",
          options |->
            [options EXCEPT
               !.description = IF IsNone(@) /\ IsNone(options.summary)
                               THEN DeriveDescription(function.attrs) ELSE @,
               !.summary     = IF IsNone(@) THEN DeriveSummary(function.attrs) ELSE @,
               !.id          = IF IsNone(@) THEN Some(function.ident) ELSE @]]

\* merge_with_fn without the default for the id
MergeWithFnNoId(options, function) ==
    IF IsNone(options.description) /\ DocIterPanicsAll(function.attrs)
    THEN Panic("doc attribute is not a name-value attribute")
    ELSE IF IsNone(options.summary) /\ DocIterPanicsFirst(function.attrs)
    THEN Panic("doc attribute is not a name-value attribute")
    ELSE [tag |-> "Ok",
          options |->
            [options EXCEPT
               !.description = IF IsNone(@) THEN DeriveDescription(function.attrs) ELSE @,
               !.summary     = IF IsNone(@) THEN DeriveSummary(function.attrs) ELSE @]]

\* merge_with_fn giving the list fields an empty default and hidden a false one
MergeWithFnDefaults(options, function) ==
    IF IsNone(options.description) /\ DocIterPanicsAll(function.attrs)
    THEN Panic("doc attribute is not a name-value attribute")
    ELSE IF IsNone(options.summary) /\ DocIterPanicsFirst(function.attrs)
    THEN Panic("doc attribute is not a name-value attribute")
    ELSE [tag |-> "Ok",
          options |->
            [options EXCEPT
               !.description = IF IsNone(@) THEN DeriveDescription(function.attrs) ELSE @,
               !.summary     = IF IsNone(@) THEN DeriveSummary(function.attrs) ELSE @,
               !.id          = IF IsNone(@) THEN Some(function.ident) ELSE @,
               !.hidden      = IF IsNone(@) THEN Some(FALSE) ELSE @,
               !.tags        = IF IsNone(@) THEN Some(<<>>) ELSE @]]

\* OapiOptions::merge_with_fn
MergeWithFn(options, function) ==
    IF IsNone(options.description) /\ DocIterPanicsAll(function.attrs)
    THEN Panic("doc attribute is not a name-value attribute")
    ELSE IF IsNone(options.summary) /\ DocIterPanicsFirst(function.attrs)
    THEN Panic("doc attribute is not a name-value attribute")
    ELSE [tag |-> "Ok",
          options |->
            [options EXCEPT
               !.description = IF IsNone(@) THEN DeriveDescription(function.attrs) ELSE @,
               !.summary     = IF IsNone(@) THEN DeriveSummary(function.attrs) ELSE @,
               !.id          = IF IsNone(@) THEN Some(function.ident) ELSE @]]

----------------------------------------------------------------------------
(* compilation.rs: CompiledRoute::from_route *)

\* syn::FnArg::Typed with pattern syn::Pat::Ident (id: u32, mut id: u32)
Arg(ident, ty) == [kind |-> "Typed", pat |-> "Ident", ident |-> ident, ty |-> ty]

\* syn::FnArg::Typed with any other pattern (State(state): State<String>)
PatArg(ty) == [kind |-> "Typed", pat |-> "Other", ident |-> <<>>, ty |-> ty]

\* syn::FnArg::Typed with a pattern that binds a name inside it: State(state)
\* binds state, and the pattern is still not a syn::Pat::Ident
PatBinding(ident, ty) == [kind |-> "Typed", pat |-> "Other", ident |-> ident, ty |-> ty]

\* syn::FnArg::Receiver (self)
Receiver == [kind |-> "Receiver", pat |-> "None", ident |-> <<>>, ty |-> UnitType]

\* An argument that enters arg_map: typed, with a plain identifier as pattern
Named(arg) == arg.kind = "Typed" /\ arg.pat = "Ident"

\* The table built from every typed argument that binds a name, whatever its
\* pattern
ArgMapAnyPattern(inputs) ==
    LET binds(i) == inputs[i].kind = "Typed" /\ inputs[i].ident # <<>>
        names  == {inputs[i].ident : i \in {j \in 1..Len(inputs) : binds(j)}}
        last(n) == CHOOSE i \in 1..Len(inputs) :
                      /\ binds(i) /\ inputs[i].ident = n
                      /\ \A j \in (i + 1)..Len(inputs) : ~(binds(j) /\ inputs[j].ident = n)
    IN  [n \in names |-> inputs[last(n)].ty]

\* The two filter_maps and collect::<HashMap<_, _>>(): a later argument of the
\* same name replaces an earlier one
ArgMap(inputs) ==
    LET names  == {inputs[i].ident : i \in {j \in 1..Len(inputs) : Named(inputs[j])}}
        last(n) == CHOOSE i \in 1..Len(inputs) :
                      /\ Named(inputs[i]) /\ inputs[i].ident = n
                      /\ \A j \in (i + 1)..Len(inputs) :
                            ~(Named(inputs[j]) /\ inputs[j].ident = n)
    IN  [n \in names |-> inputs[last(n)].ty]

\* A lookup that leaves the entry in the map
KeepEntry(arg_map, ident) == arg_map

\* HashMap::remove_entry, the map that is left
RemoveEntry(arg_map, ident) == [n \in (DOMAIN arg_map) \ {ident} |-> arg_map[n]]

ErrPathParam == "path parameter not found in function arguments"

ErrQueryParam == "query parameter not found in function arguments"

ErrUseApiRoute == "Use api_route instead of route to use OpenAPI options"

\* The loop over route.path_params going on after a capture it cannot bind
RECURSIVE BindPathParamsSkipMissing(_, _, _)
BindPathParamsSkipMissing(path_params, i, arg_map) ==
    IF i > Len(path_params)
    THEN [tag |-> "Ok", path_params |-> path_params, arg_map |-> arg_map]
    ELSE IF ~Captures(path_params[i]) \/ path_params[i].ident \notin DOMAIN arg_map
    THEN BindPathParamsSkipMissing(path_params, i + 1, arg_map)
    ELSE BindPathParamsSkipMissing(
            [path_params EXCEPT ![i].ty = arg_map[path_params[i].ident]],
            i + 1,
            RemoveEntry(arg_map, path_params[i].ident))

\* The loop over route.path_params: each capture and wildcard takes its entry
\* out of arg_map or fails
RECURSIVE BindPathParams(_, _, _)
BindPathParams(path_params, i, arg_map) ==
    IF i > Len(path_params)
    THEN [tag |-> "Ok", path_params |-> path_params, arg_map |-> arg_map]
    ELSE IF ~Captures(path_params[i])
    THEN BindPathParams(path_params, i + 1, arg_map)
    ELSE IF path_params[i].ident \notin DOMAIN arg_map
    THEN Failure("unresolved", ErrPathParam, path_params[i].ident)
    ELSE BindPathParams(
            [path_params EXCEPT ![i].ty = arg_map[path_params[i].ident]],
            i + 1,
            RemoveEntry(arg_map, path_params[i].ident))

\* The loop over route.query_params putting each binding in front of the list
RECURSIVE BindQueryParamsPrepend(_, _, _, _)
BindQueryParamsPrepend(query_params, i, arg_map, acc) ==
    IF i > Len(query_params)
    THEN [tag |-> "Ok", query_params |-> acc, arg_map |-> arg_map]
    ELSE IF query_params[i] \notin DOMAIN arg_map
    THEN Failure("unresolved", ErrQueryParam, query_params[i])
    ELSE BindQueryParamsPrepend(
            query_params,
            i + 1,
            RemoveEntry(arg_map, query_params[i]),
            <<[ident |-> query_params[i], ty |-> arg_map[query_params[i]]]>> \o acc)

\* The loop over route.query_params
RECURSIVE BindQueryParams(_, _, _, _)
BindQueryParams(query_params, i, arg_map, acc) ==
    IF i > Len(query_params)
    THEN [tag |-> "Ok", query_params |-> acc, arg_map |-> arg_map]
    ELSE IF query_params[i] \notin DOMAIN arg_map
    THEN Failure("unresolved", ErrQueryParam, query_params[i])
    ELSE BindQueryParams(
            query_params,
            i + 1,
            RemoveEntry(arg_map, query_params[i]),
            Append(acc, [ident |-> query_params[i], ty |-> arg_map[query_params[i]]]))

\* Whether guess_state_type returns from this argument
StateShaped(arg) ==
    /\ arg.kind = "Typed"
    /\ arg.ty.kind = "Path"
    /\ arg.ty.last = "State"
    /\ Len(arg.ty.args) = 1
    /\ arg.ty.args[1].kind = "Type"

\* guess_state_type: the loop over sig.inputs, from argument i on
RECURSIVE GuessStateFrom(_, _)
GuessStateFrom(inputs, i) ==
    IF i > Len(inputs) THEN UnitType
    ELSE IF StateShaped(inputs[i]) THEN inputs[i].ty.args[1].ty
    ELSE GuessStateFrom(inputs, i + 1)

\* guess_state_type looking only at the arguments that enter arg_map
RECURSIVE GuessStateNamedFrom(_, _)
GuessStateNamedFrom(inputs, i) ==
    IF i > Len(inputs) THEN UnitType
    ELSE IF Named(inputs[i]) /\ StateShaped(inputs[i]) THEN inputs[i].ty.args[1].ty
    ELSE GuessStateNamedFrom(inputs, i + 1)

GuessStateTypeNamedOnly(inputs) == GuessStateNamedFrom(inputs, 1)

GuessStateType(inputs) == GuessStateFrom(inputs, 1)

\* The state resolved with the guess tried before the explicit type
ResolveStateGuessFirst(state, inputs) ==
    IF GuessStateType(inputs) # UnitType THEN GuessStateType(inputs)
    ELSE IF IsSome(state) THEN Unwrap(state)
    ELSE UnitType

\* route.state.unwrap_or_else(|| guess_state_type(sig))
ResolveState(state, inputs) ==
    IF IsSome(state) THEN Unwrap(state) ELSE GuessStateType(inputs)

\* The empty block installed in both modes
DefaultOptionsAnyMode(oapi_options, with_aide) ==
    IF IsNone(oapi_options) THEN Some(EmptyOptions) ELSE oapi_options

\* The options from_route works on: metadata mode installs an empty block
DefaultOptions(oapi_options, with_aide) ==
    IF with_aide /\ IsNone(oapi_options) THEN Some(EmptyOptions) ELSE oapi_options

\* if let Some(options) = route.oapi_options.as_mut() { options.merge_with_fn(function) }
MergeOptions(oapi_options, function) ==
    IF IsNone(oapi_options) THEN [tag |-> "Ok", oapi_options |-> None]
    ELSE LET m == MergeWithFn(Unwrap(oapi_options), function)
         IN  IF m.tag # "Ok" THEN m
             ELSE [tag |-> "Ok", oapi_options |-> Some(m.options)]

\* from_route binding the query names before the path captures
FromRouteQueryFirst(r, function, with_aide) ==
    LET options == DefaultOptions(r.oapi_options, with_aide)
        q == BindQueryParams(r.query_params, 1, ArgMap(function.inputs), <<>>)
        p == BindPathParams(r.path_params, 1, q.arg_map)
        m == MergeOptions(options, function)
    IN  IF ~with_aide /\ IsSome(r.oapi_options)
        THEN Failure("mode", ErrUseApiRoute, <<>>)
        ELSE IF q.tag # "Ok" THEN q
        ELSE IF p.tag # "Ok" THEN p
        ELSE IF m.tag # "Ok" THEN m
        ELSE [tag |-> "Ok",
              compiled |-> [route_lit    |-> r.route_lit,
                            method       |-> r.method,
                            path_params  |-> p.path_params,
                            query_params |-> q.query_params,
                            state        |-> ResolveState(r.state, function.inputs),
                            oapi_options |-> m.oapi_options]]

\* CompiledRoute::from_route
FromRoute(r, function, with_aide) ==
    LET options == DefaultOptions(r.oapi_options, with_aide)
        p == BindPathParams(r.path_params, 1, ArgMap(function.inputs))
        q == BindQueryParams(r.query_params, 1, p.arg_map, <<>>)
        m == MergeOptions(options, function)
    IN  IF ~with_aide /\ IsSome(r.oapi_options)
        THEN Failure("mode", ErrUseApiRoute, <<>>)
        ELSE IF p.tag # "Ok" THEN p
        ELSE IF q.tag # "Ok" THEN q
        ELSE IF m.tag # "Ok" THEN m
        ELSE [tag |-> "Ok",
              compiled |-> [route_lit    |-> r.route_lit,
                            method       |-> r.method,
                            path_params  |-> p.path_params,
                            query_params |-> q.query_params,
                            state        |-> ResolveState(r.state, function.inputs),
                            oapi_options |-> m.oapi_options]]

----------------------------------------------------------------------------
(* compilation.rs: what the emitter reads off a CompiledRoute *)

\* CompiledRoute::to_axum_path_string: the loop over path_params, from index i on
RECURSIVE AxumPathFrom(_, _)
AxumPathFrom(path_params, i) ==
    IF i > Len(path_params) THEN <<>>
    ELSE <<"/">>
         \o (CASE path_params[i].kind = "Capture"  -> <<":">> \o path_params[i].lit
               [] path_params[i].kind = "WildCard" -> <<"*">> \o path_params[i].lit
               [] path_params[i].kind = "Static"   -> path_params[i].lit)
         \o AxumPathFrom(path_params, i + 1)

\* to_axum_path_string with the wildcard arm pushing ':' like the capture arm
RECURSIVE AxumPathColonOnlyFrom(_, _)
AxumPathColonOnlyFrom(path_params, i) ==
    IF i > Len(path_params) THEN <<>>
    ELSE <<"/">>
         \o (IF Captures(path_params[i]) THEN <<":">> \o path_params[i].lit
             ELSE path_params[i].lit)
         \o AxumPathColonOnlyFrom(path_params, i + 1)

ToAxumPathStringColonOnly(c) == AxumPathColonOnlyFrom(c.path_params, 1)

ToAxumPathString(c) == AxumPathFrom(c.path_params, 1)

\* filter_map(PathParam::capture) over path_params: the captures and wildcards
RECURSIVE CaptureList(_)
CaptureList(path_params) ==
    IF path_params = <<>> THEN <<>>
    ELSE IF Captures(Head(path_params))
    THEN <<[ident |-> Head(path_params).ident, ty |-> Head(path_params).ty]>>
         \o CaptureList(Tail(path_params))
    ELSE CaptureList(Tail(path_params))

\* CompiledRoute::path_extractor: Path((idents,)): Path<(types,)>, if any capture
PathExtractor(c) ==
    IF CaptureList(c.path_params) = <<>> THEN None
    ELSE Some(CaptureList(c.path_params))

\* CompiledRoute::query_extractor: Query(__QueryParams__ { idents }), if any
QueryExtractor(c) ==
    IF c.query_params = <<>> THEN None
    ELSE Some([i \in 1..Len(c.query_params) |-> c.query_params[i].ident])

\* CompiledRoute::query_params_struct: the fields of struct __QueryParams__
QueryParamsStruct(c) ==
    IF c.query_params = <<>> THEN None ELSE Some(c.query_params)

\* CompiledRoute::extracted_idents: captures in template order, then query names
ExtractedIdents(c) ==
    [i \in 1..Len(CaptureList(c.path_params)) |-> CaptureList(c.path_params)[i].ident]
    \o [i \in 1..Len(c.query_params) |-> c.query_params[i].ident]

\* The test looking at the path captures only
ClaimedByPathOnly(c, arg) ==
    /\ Named(arg)
    /\ \E k \in 1..Len(c.path_params) :
          Captures(c.path_params[k]) /\ c.path_params[k].ident = arg.ident

\* The test of remaining_pattypes_numbered that drops an argument
ClaimedByRoute(c, arg) ==
    /\ Named(arg)
    /\ \/ \E k \in 1..Len(c.path_params) :
            Captures(c.path_params[k]) /\ c.path_params[k].ident = arg.ident
       \/ \E k \in 1..Len(c.query_params) : c.query_params[k].ident = arg.ident

\* format_ident!("___arg___{}", i)
NumberedIdent(i) == <<"___arg___", ToString(i)>>

\* remaining_pattypes_numbered: enumerate() counts from zero, args[i] is item i - 1
RECURSIVE RemainingFrom(_, _, _)
RemainingFrom(c, args, i) ==
    IF i > Len(args) THEN <<>>
    ELSE IF ClaimedByRoute(c, args[i]) THEN RemainingFrom(c, args, i + 1)
    ELSE <<[pat |-> NumberedIdent(i - 1), ty |-> args[i].ty]>>
         \o RemainingFrom(c, args, i + 1)

\* remaining_pattypes_numbered numbering the arguments it keeps (0, 1, ..)
\* instead of using their index in the original list
RECURSIVE RemainingRenumberedFrom(_, _, _, _)
RemainingRenumberedFrom(c, args, i, kept) ==
    IF i > Len(args) THEN <<>>
    ELSE IF ClaimedByRoute(c, args[i]) THEN RemainingRenumberedFrom(c, args, i + 1, kept)
    ELSE <<[pat |-> NumberedIdent(kept), ty |-> args[i].ty]>>
         \o RemainingRenumberedFrom(c, args, i + 1, kept + 1)

RemainingPattypesRenumbered(c, args) == RemainingRenumberedFrom(c, args, 1, 0)

RemainingPattypesNumbered(c, args) == RemainingFrom(c, args, 1)

\* unimplemented!("Self type is not supported")
RemainingPanics(args) == \E i \in 1..Len(args) : args[i].kind = "Receiver"

\* get_oapi_summary / description / hidden / id / tags / responses / security
GetOapiSummary(c) ==
    IF IsSome(c.oapi_options) THEN Unwrap(c.oapi_options).summary ELSE None

GetOapiDescription(c) ==
    IF IsSome(c.oapi_options) THEN Unwrap(c.oapi_options).description ELSE None

GetOapiHidden(c) ==
    IF IsSome(c.oapi_options) THEN Unwrap(c.oapi_options).hidden ELSE None

GetOapiId(c, sig_ident) ==
    IF IsSome(c.oapi_options) /\ IsSome(Unwrap(c.oapi_options).id)
    THEN Unwrap(c.oapi_options).id
    ELSE Some(sig_ident)

GetOapiTags(c) ==
    IF IsSome(c.oapi_options) /\ IsSome(Unwrap(c.oapi_options).tags)
    THEN Unwrap(Unwrap(c.oapi_options).tags)
    ELSE <<>>

GetOapiResponses(c) ==
    IF IsSome(c.oapi_options) /\ IsSome(Unwrap(c.oapi_options).responses)
    THEN Unwrap(Unwrap(c.oapi_options).responses)
    ELSE <<>>

GetOapiSecurity(c) ==
    IF IsSome(c.oapi_options) /\ IsSome(Unwrap(c.oapi_options).security)
    THEN Unwrap(Unwrap(c.oapi_options).security)
    ELSE <<>>

ErrSingleIdent == "expected a single identifier"

ErrSingleIdentNoType == "expected a single identifier without type"

\* get_oapi_transform taking any single argument pattern
GetOapiTransformAnyPattern(c) ==
    IF IsNone(c.oapi_options) \/ IsNone(Unwrap(c.oapi_options).transform)
    THEN [tag |-> "Ok", transform |-> None]
    ELSE LET closure == Unwrap(Unwrap(c.oapi_options).transform)
         IN  IF Len(closure.inputs) # 1
             THEN Failure("transform", ErrSingleIdent, <<>>)
             ELSE [tag |-> "Ok", transform |-> Some(closure.body)]

\* get_oapi_transform: the closure's body, to run on __op__, or an error
GetOapiTransform(c) ==
    IF IsNone(c.oapi_options) \/ IsNone(Unwrap(c.oapi_options).transform)
    THEN [tag |-> "Ok", transform |-> None]
    ELSE LET closure == Unwrap(Unwrap(c.oapi_options).transform)
         IN  IF Len(closure.inputs) # 1
             THEN Failure("transform", ErrSingleIdent, <<>>)
             ELSE IF closure.inputs[1] # "Ident"
             THEN Failure("transform", ErrSingleIdentNoType, <<>>)
             ELSE [tag |-> "Ok", transform |-> Some(closure.body)]

----------------------------------------------------------------------------
(* lib.rs: _route, the generated code, and its registration *)

Call(method, arg) == [method |-> method, arg |-> arg]

\* An Option<value> as zero or one builder call
OptCall(method, opt) == IF IsSome(opt) THEN <<Call(method, Unwrap(opt))>> ELSE <<>>

\* One builder call per element
EachCall(method, list) == [i \in 1..Len(list) |-> Call(method, list[i])]

\* The generated closure with #transform placed before the builder calls
OpCallsTransformFirst(c, sig_ident, transform) ==
    (IF IsSome(transform) THEN Unwrap(transform) ELSE <<>>)
    \o OptCall("summary", GetOapiSummary(c))
    \o OptCall("description", GetOapiDescription(c))
    \o OptCall("hidden", GetOapiHidden(c))
    \o OptCall("id", GetOapiId(c, sig_ident))
    \o EachCall("tag", GetOapiTags(c))
    \o EachCall("security_requirement_scopes", GetOapiSecurity(c))
    \o EachCall("response", GetOapiResponses(c))

\* The statements the generated closure |__op__| runs, in source order:
\* summary, description, hidden, id, tags, security, responses, then #transform
OpCalls(c, sig_ident, transform) ==
    OptCall("summary", GetOapiSummary(c))
    \o OptCall("description", GetOapiDescription(c))
    \o OptCall("hidden", GetOapiHidden(c))
    \o OptCall("id", GetOapiId(c, sig_ident))
    \o EachCall("tag", GetOapiTags(c))
    \o EachCall("security_requirement_scopes", GetOapiSecurity(c))
    \o EachCall("response", GetOapiResponses(c))
    \o (IF IsSome(transform) THEN Unwrap(transform) ELSE <<>>)

\* The call of the original handler: extracted idents, then the numbered idents
CallArgs(c, args) ==
    ExtractedIdents(c)
    \o [i \in 1..Len(RemainingPattypesNumbered(c, args)) |->
            RemainingPattypesNumbered(c, args)[i].pat]

\* format_ident!("{}_with", http_method) in metadata mode
HttpMethodName(c, with_aide) ==
    IF with_aide THEN <<ToAxumMethodName(c.method), "_with">>
    ELSE <<ToAxumMethodName(c.method)>>

\* _route after from_route: everything the quoted code is built from
EmitRoute(c, function, with_aide) ==
    LET t == GetOapiTransform(c)
    IN  IF RemainingPanics(function.inputs)
        THEN Panic("Self type is not supported")
        ELSE IF with_aide /\ t.tag # "Ok" THEN t
        ELSE [tag |-> "Ok",
              code |-> [axum_path         |-> ToAxumPathString(c),
                        http_method       |-> HttpMethodName(c, with_aide),
                        state_type        |-> c.state,
                        path_extractor    |-> PathExtractor(c),
                        query_extractor   |-> QueryExtractor(c),
                        query_struct      |-> QueryParamsStruct(c),
                        remaining         |-> RemainingPattypesNumbered(c, function.inputs),
                        call_args         |-> CallArgs(c, function.inputs),
                        op_calls          |-> IF with_aide
                                              THEN Some(OpCalls(c, function.ident, t.transform))
                                              ELSE None]]

\* aide's Operation before any builder call
DefaultOperation ==
    [summary |-> None, description |-> None, hidden |-> None, id |-> None,
     tags |-> <<>>, security |-> <<>>, responses |-> <<>>]

\* One TransformOperation builder call
ApplyCall(op, call) ==
    CASE call.method = "summary"     -> [op EXCEPT !.summary = Some(call.arg)]
      [] call.method = "description" -> [op EXCEPT !.description = Some(call.arg)]
      [] call.method = "hidden"      -> [op EXCEPT !.hidden = Some(call.arg)]
      [] call.method = "id"          -> [op EXCEPT !.id = Some(call.arg)]
      [] call.method = "tag"         -> [op EXCEPT !.tags = Append(@, call.arg)]
      [] call.method = "security_requirement_scopes"
                                     -> [op EXCEPT !.security = Append(@, call.arg)]
      [] call.method = "response"    -> [op EXCEPT !.responses = Append(@, call.arg)]

\* The generated closure run on a fresh operation: the calls applied left to right
RECURSIVE ApplyCalls(_, _)
ApplyCalls(op, calls) ==
    IF calls = <<>> THEN op
    ELSE ApplyCalls(ApplyCall(op, Head(calls)), Tail(calls))

\* typed_route / typed_api_route: handler() and the router's (api_)route
RegisterRoute(code) ==
    [path      |-> code.axum_path,
     operation |-> IF IsSome(code.op_calls)
                   THEN Some(ApplyCalls(DefaultOperation, Unwrap(code.op_calls)))
                   ELSE None]

----------------------------------------------------------------------------
(* The state machine: each invocation w of the macro walks through _route *)

Workers == DOMAIN pc

\* let route = syn::parse::<Route>(attr)?
ParseRoute(w) ==
    /\ pc[w] = "attr"
    /\ LET r == RouteParse(input[w].attr)
       IN  IF r.tag = "Ok"
           THEN /\ route' = [route EXCEPT ![w] = Some(r.route)]
                /\ pc' = [pc EXCEPT ![w] = "parsed"]
                /\ error' = error
           ELSE /\ route' = route
                /\ pc' = [pc EXCEPT ![w] = "failed"]
                /\ error' = [error EXCEPT ![w] = Some(r)]
    /\ UNCHANGED <<input, compiled, emitted, operation>>

\* from_route run on the first invocation's handler, as if the parameter
\* table were shared by the batch
CompileSharedTable(w) ==
    /\ pc[w] = "parsed"
    /\ LET r == FromRoute(Unwrap(route[w]), input[1].function, input[w].with_aide)
       IN  IF r.tag = "Ok"
           THEN /\ compiled' = [compiled EXCEPT ![w] = Some(r.compiled)]
                /\ pc' = [pc EXCEPT ![w] = "compiled"]
                /\ error' = error
           ELSE /\ compiled' = compiled
                /\ pc' = [pc EXCEPT ![w] = "failed"]
                /\ error' = [error EXCEPT ![w] = Some(r)]
    /\ UNCHANGED <<input, route, emitted, operation>>

\* let route = CompiledRoute::from_route(route, &function, with_aide)?
Compile(w) ==
    /\ pc[w] = "parsed"
    /\ LET r == FromRoute(Unwrap(route[w]), input[w].function, input[w].with_aide)
       IN  IF r.tag = "Ok"
           THEN /\ compiled' = [compiled EXCEPT ![w] = Some(r.compiled)]
                /\ pc' = [pc EXCEPT ![w] = "compiled"]
                /\ error' = error
           ELSE /\ compiled' = compiled
                /\ pc' = [pc EXCEPT ![w] = "failed"]
                /\ error' = [error EXCEPT ![w] = Some(r)]
    /\ UNCHANGED <<input, route, emitted, operation>>

\* The rest of _route: the extractors, the numbered arguments, the quoted code
Emit(w) ==
    /\ pc[w] = "compiled"
    /\ LET r == EmitRoute(Unwrap(compiled[w]), input[w].function, input[w].with_aide)
       IN  IF r.tag = "Ok"
           THEN /\ emitted' = [emitted EXCEPT ![w] = Some(r.code)]
                /\ pc' = [pc EXCEPT ![w] = "emitted"]
                /\ error' = error
           ELSE /\ emitted' = emitted
                /\ pc' = [pc EXCEPT ![w] = "failed"]
                /\ error' = [error EXCEPT ![w] = Some(r)]
    /\ UNCHANGED <<input, route, compiled, operation>>

\* The router calls the generated function and registers what it returns
Register(w) ==
    /\ pc[w] = "emitted"
    /\ operation' = [operation EXCEPT ![w] = RegisterRoute(Unwrap(emitted[w])).operation]
    /\ pc' = [pc EXCEPT ![w] = "registered"]
    /\ UNCHANGED <<input, route, compiled, error, emitted>>

Next == \E w \in Workers : ParseRoute(w) \/ Compile(w) \/ Emit(w) \/ Register(w)

\* The state of a batch of invocations before any of them has run
Start(inputs) ==
    /\ input = inputs
    /\ pc = [w \in DOMAIN inputs |-> "attr"]
    /\ route = [w \in DOMAIN inputs |-> None]
    /\ compiled = [w \in DOMAIN inputs |-> None]
    /\ error = [w \in DOMAIN inputs |-> None]
    /\ emitted = [w \in DOMAIN inputs |-> None]
    /\ operation = [w \in DOMAIN inputs |-> None]

----------------------------------------------------------------------------
(* Inputs *)

U32 == PathType("u32", <<>>)

StringType == PathType("String", <<>>)

\* One macro invocation: #[route(..)] when with_aide is FALSE, #[api_route(..)] else
Invocation(method, lit, state, oapi_options, function, with_aide) ==
    [attr      |-> [method |-> method, lit |-> lit, state |-> state,
                    oapi_options |-> oapi_options],
     function  |-> function,
     with_aide |-> with_aide]

\* async fn <ident>(<inputs>) with attributes <attrs>
Function(ident, attrs, inputs) == [ident |-> ident, attrs |-> attrs, inputs |-> inputs]

\* All texts of at most n characters over the alphabet
TextsUpTo(alphabet, n) == UNION {[1..k -> alphabet] : k \in 0..n}

----------------------------------------------------------------------------
(* Spec: every template text up to a length, against a two-argument handler *)

MaxTemplateLen == 5

TemplateChars == {"/", ":", "*", "?", "&", "a", "b"}

\* async fn handler(a: u32, b: String)
TwoArgHandler ==
    Function(<<"handler">>, <<>>, <<Arg(<<"a">>, U32), Arg(<<"b">>, StringType)>>)

Init ==
    \E lit \in TextsUpTo(TemplateChars, MaxTemplateLen), with_aide \in BOOLEAN :
        Start(<<Invocation("GET", lit, None, None, TwoArgHandler, with_aide)>>)

Spec == Init /\ [][Next]_vars

----------------------------------------------------------------------------
(* SpecBind: templates built from path tokens and query names, against every
   handler made of distinct arguments *)

MaxSegments == 2

MaxQueryNames == 1

MaxArgs == 3

StateOf(t) == PathType("State", <<TypeArg(t)>>)

\* Path tokens: a static, a capture, a wildcard
SegmentTokens == {<<"s">>, <<":", "a">>, <<"*", "b">>}

QueryNames == {<<"a">>, <<"c">>}

\* a: u32, b: String, c: State<String>, State(state): State<u32>, self
ArgChoices ==
    {Arg(<<"a">>, U32), Arg(<<"b">>, StringType), Arg(<<"c">>, StateOf(StringType)),
     PatArg(StateOf(U32)), Receiver}

\* The sequences of at most n distinct elements of S
DistinctSeqs(S, n) ==
    {q \in UNION {[1..k -> S] : k \in 0..n} :
        \A i, j \in 1..Len(q) : i # j => q[i] # q[j]}

\* The sequences of one to n elements of S
NonEmptySeqs(S, n) == UNION {[1..k -> S] : k \in 1..n}

\* sep, then each element: "/" + t1 + "/" + t2 ...
RECURSIVE PrefixEach(_, _)
PrefixEach(parts, sep) ==
    IF parts = <<>> THEN <<>>
    ELSE <<sep>> \o Head(parts) \o PrefixEach(Tail(parts), sep)

\* The template text with these path tokens and these query names
TemplateOf(segments, query) ==
    PrefixEach(segments, "/")
    \o (IF query = <<>> THEN <<>> ELSE <<"?">> \o Tail(PrefixEach(query, "&")))

\* (with_aide, metadata block): route, api_route, and route with a block
ModeChoices == {<<FALSE, None>>, <<TRUE, None>>, <<FALSE, Some(EmptyOptions)>>}

InitBind ==
    \E segments \in NonEmptySeqs(SegmentTokens, MaxSegments),
       query \in UNION {[1..k -> QueryNames] : k \in 0..MaxQueryNames},
       inputs \in DistinctSeqs(ArgChoices, MaxArgs),
       mode \in ModeChoices :
        Start(<<Invocation("GET", TemplateOf(segments, query), None, mode[2],
                           Function(<<"handler">>, <<>>, inputs), mode[1])>>)

SpecBind == InitBind /\ [][Next]_vars

----------------------------------------------------------------------------
(* SpecState: handlers with State-like arguments, with and without `with <STATE>` *)

MaxStateArgs == 3

BoolType == PathType("bool", <<>>)

\* a: State<bool>, c: State<String>, State(state): State<u32>, l: State<'a>,
\* t: State<u32, String>, r: &State<String>, j: Json<u32>, self
StateArgChoices ==
    {Arg(<<"a">>, StateOf(BoolType)),
     Arg(<<"c">>, StateOf(StringType)),
     PatArg(StateOf(U32)),
     Arg(<<"l">>, PathType("State", <<LifetimeArg>>)),
     Arg(<<"t">>, PathType("State", <<TypeArg(U32), TypeArg(StringType)>>)),
     Arg(<<"r">>, RefType("State")),
     Arg(<<"j">>, PathType("Json", <<TypeArg(U32)>>)),
     Receiver}

\* "/s", "/:a", "/s?c"
StateTemplates ==
    {<<"/", "s">>, <<"/", ":", "a">>, <<"/", "s", "?", "c">>}

\* no `with`, `with String`, `with AppState`
StateChoices == {None, Some(StringType), Some(PathType("AppState", <<>>))}

InitState ==
    \E lit \in StateTemplates,
       state \in StateChoices,
       inputs \in DistinctSeqs(StateArgChoices, MaxStateArgs) :
        Start(<<Invocation("GET", lit, state, None,
                           Function(<<"handler">>, <<>>, inputs), FALSE)>>)

SpecState == InitState /\ [][Next]_vars

----------------------------------------------------------------------------
(* SpecDocs: handlers with every short list of attributes, with and without
   explicit summary, description and id *)

MaxAttrs == 4

\* #[doc = "<value>"], what a `/// ...` line becomes
DocAttr(value) == [path |-> "doc", meta |-> "NameValue", value |-> value]

\* "Line1", "", "Line2", "Line3", " get-summary", #[inline], #[doc(hidden)]
AttrChoices ==
    {DocAttr(<<"Line1">>), DocAttr(<<>>), DocAttr(<<"Line2">>), DocAttr(<<"Line3">>),
     DocAttr(<<" ", "get-summary">>),
     [path |-> "inline", meta |-> "Path", value |-> <<>>],
     [path |-> "doc", meta |-> "List", value |-> <<>>]}

\* The blocks that give any of summary, description and id, and no block
DocBlockChoices ==
    {None} \cup
    {Some([EmptyOptions EXCEPT !.summary = s, !.description = d, !.id = i]) :
        s \in {None, Some(<<"MySummary">>)},
        d \in {None, Some(<<"MyDescription">>)},
        i \in {None, Some(<<"MyRoute">>)}}

\* api_route with every block; route without a block and with the empty block
DocModeChoices ==
    {<<TRUE, b>> : b \in DocBlockChoices} \cup {<<FALSE, None>>, <<FALSE, Some(EmptyOptions)>>}

InitDocs ==
    \E attrs \in UNION {[1..k -> AttrChoices] : k \in 0..MaxAttrs},
       mode \in DocModeChoices :
        Start(<<Invocation("GET", <<"/", "h", "e", "l", "l", "o">>, None, mode[2],
                           Function(<<"get_hello">>, attrs,
                                    <<Arg(<<"state">>, StateOf(StringType))>>),
                           mode[1])>>)

SpecDocs == InitDocs /\ [][Next]_vars

----------------------------------------------------------------------------
(* SpecOp: metadata blocks with every combination of fields and a transform
   closure of a few builder calls *)

MaxTransformCalls == 2

\* A closure |pat, ..| body: the kinds of its argument patterns, and the builder
\* calls its body makes on its argument
Closure(inputs, body) == [inputs |-> inputs, body |-> body]

\* x.summary("OverriddenSummary"), x.id("OverriddenId"), x.tag("private"),
\* x.hidden(true)
TransformCalls ==
    {Call("summary", <<"OverriddenSummary">>), Call("id", <<"OverriddenId">>),
     Call("tag", <<"private">>), Call("hidden", TRUE)}

\* |x| <calls>, and the closures get_oapi_transform refuses: || .., |x, y| ..,
\* |x: T| .., |(x, y)| ..
TransformChoices ==
    {Closure(<<"Ident">>, body) :
        body \in UNION {[1..k -> TransformCalls] : k \in 0..MaxTransformCalls}}
    \cup {Closure(<<>>, <<>>), Closure(<<"Ident", "Ident">>, <<>>),
          Closure(<<"Type">>, <<>>), Closure(<<"Tuple">>, <<>>)}

MySecurity ==
    << [scheme |-> <<"MySecurity1">>, scopes |-> << <<"MyScope1">>, <<"MyScope2">> >>],
       [scheme |-> <<"MySecurity2">>, scopes |-> <<>>] >>

MyResponses == << [code |-> "300", ty |-> StringType] >>

\* Every block over: summary, description, id, hidden, tags, security,
\* responses given or not, and a transform or none
OpBlockChoices ==
    {[summary     |-> s, description |-> d, id |-> i, hidden |-> h, tags |-> t,
      security    |-> sec, responses |-> r, transform |-> tr] :
        s \in {None, Some(<<"MySummary">>)},
        d \in {None, Some(<<"MyDescription">>)},
        i \in {None, Some(<<"MyRoute">>)},
        h \in {None, Some(FALSE)},
        t \in {None, Some(<< <<"MyTag1">>, <<"MyTag2">> >>)},
        sec \in {None, Some(MySecurity)},
        r \in {None, Some(MyResponses)},
        tr \in {None} \cup {Some(c) : c \in TransformChoices}}

\* No doc comment, and "/// unused-summary", "///", "/// unused-description"
OpDocChoices ==
    {<<>>,
     <<DocAttr(<<" ", "unused-summary">>), DocAttr(<<>>),
       DocAttr(<<" ", "unused-description">>)>>}

InitOp ==
    \E block \in OpBlockChoices, attrs \in OpDocChoices, with_aide \in BOOLEAN :
        Start(<<Invocation("GET", <<"/", "h", "e", "l", "l", "o">>, None, Some(block),
                           Function(<<"get_gello_with_attributes">>, attrs,
                                    <<Arg(<<"state">>, StateOf(StringType))>>),
                           with_aide)>>)

SpecOp == InitOp /\ [][Next]_vars

----------------------------------------------------------------------------
(* SpecItem: the item_handler example, its parameters in every order and
   selection *)

MaxItemArgs == 4

OptionOf(t) == PathType("Option", <<TypeArg(t)>>)

IdName == <<"i", "d">>

AmountName == <<"a", "m", "o", "u", "n", "t">>

OffsetName == <<"o", "f", "f", "s", "e", "t">>

StateName == <<"s", "t", "a", "t", "e">>

\* "/item/:id?amount&offset"
ItemTemplate ==
    TemplateOf(<< <<"i", "t", "e", "m">>, <<":">> \o IdName >>, <<AmountName, OffsetName>>)

\* "/item/:id?amount&offset", "/item/:id", "/:amount/:id?offset",
\* "/item?offset&id", "/item?state"
ItemTemplates ==
    {ItemTemplate,
     TemplateOf(<< <<"i", "t", "e", "m">>, <<":">> \o IdName >>, <<>>),
     TemplateOf(<< <<":">> \o AmountName, <<":">> \o IdName >>, <<OffsetName>>),
     TemplateOf(<< <<"i", "t", "e", "m">> >>, <<OffsetName, IdName>>),
     TemplateOf(<< <<"i", "t", "e", "m">> >>, <<StateName>>)}

\* State(state): State<String>
StatePattern == PatBinding(StateName, StateOf(StringType))

\* Json(json): Json<u32>
JsonPattern == PatBinding(<<"j", "s", "o", "n">>, PathType("Json", <<TypeArg(U32)>>))

\* id: u32, amount: Option<u32>, offset: Option<u32>, state: State<String>,
\* State(state): State<String>, Json(json): Json<u32>, self
ItemArgChoices ==
    {Arg(IdName, U32), Arg(AmountName, OptionOf(U32)), Arg(OffsetName, OptionOf(U32)),
     Arg(StateName, StateOf(StringType)), StatePattern, JsonPattern, Receiver}

InitItem ==
    \E lit \in ItemTemplates,
       inputs \in DistinctSeqs(ItemArgChoices, MaxItemArgs),
       with_aide \in BOOLEAN :
        Start(<<Invocation("get", lit, None, None,
                           Function(<<"item_handler">>, <<>>, inputs), with_aide)>>)

SpecItem == InitItem /\ [][Next]_vars

----------------------------------------------------------------------------
(* Claims checked under Spec *)

\* The template literal of invocation w
Lit(w) == input[w].attr.lit

\* t is the text of s before its first '?', the whole of s when it has none
IsPathPortion(t, s) ==
    \E k \in 0..Len(s) :
        /\ \A i \in 1..k : s[i] # "?"
        /\ k = Len(s) \/ s[k + 1] = "?"
        /\ t = SubSeq(s, 1, k)

\* C1: whenever a route has been parsed, compiled and emitted, its canonical
\* path is the template's text before the '?' (the whole template when there
\* is no '?'): the segments are re-emitted with their '/', ':' and '*' markers
\* in template order, and nothing of the query portion appears in it.
C1_CanonicalPathIsPathPortion ==
    \A w \in Workers :
        IsSome(emitted[w]) => IsPathPortion(Unwrap(emitted[w]).axum_path, Lit(w))

\* C1 witness: "/*a?b" was emitted, with canonical path "/*a"
C1_Witness ==
    \E w \in Workers :
        /\ IsSome(emitted[w])
        /\ Lit(w) = <<"/", "*", "a", "?", "b">>
        /\ Unwrap(emitted[w]).axum_path = <<"/", "*", "a">>

\* The path tokens of a template that starts with '/' (text before the first '?')
PathTokens(s) == Split(StripPrefix(Split(s, "?")[1]), "/")

\* The template has a '*name' token, name an identifier, that is not its last
\* path token
HasEarlyWildcard(s) ==
    /\ StartsWith(s, "/")
    /\ \E i \in 1..(Len(PathTokens(s)) - 1) :
          /\ StartsWith(PathTokens(s)[i], "*")
          /\ Len(PathTokens(s)[i]) > 1
          /\ ~IdentNewPanics(StripPrefix(PathTokens(s)[i]))

\* C4 (as claimed): a template with a wildcard segment before the last path
\* segment is always rejected with a grammar error, whatever the other
\* segments are.
C4_EarlyWildcardIsGrammarError ==
    \A w \in Workers :
        (HasEarlyWildcard(Lit(w)) /\ pc[w] # "attr") =>
            /\ pc[w] = "failed"
            /\ IsSome(error[w])
            /\ Unwrap(error[w]).tag = "Err"
            /\ Unwrap(error[w]).kind = "grammar"

----------------------------------------------------------------------------
(* Claims checked under SpecBind *)

\* The handler's parameter list of invocation w
Inputs(w) == input[w].function.inputs

\* The names of a parsed route in pass order: captures and wildcard in template
\* order, then the query names as written
NamesInOrder(r) ==
    [i \in 1..Len(CaptureList(r.path_params)) |-> CaptureList(r.path_params)[i].ident]
    \o r.query_params

NameSet(r) == {NamesInOrder(r)[i] : i \in 1..Len(NamesInOrder(r))}

\* The positions of the simply-named parameters called n
Occurrences(inputs, n) == {i \in 1..Len(inputs) : Named(inputs[i]) /\ inputs[i].ident = n}

\* from_route has run on the parsed route of invocation w
FromRouteRan(w) == IsSome(route[w]) /\ pc[w] # "parsed"

\* _route has run to its end, or to its error, on invocation w
RouteRan(w) == pc[w] \in {"emitted", "registered", "failed"}

\* The positions of the parameters no template name claims
Unclaimed(r, inputs) ==
    {i \in 1..Len(inputs) : ~(Named(inputs[i]) /\ inputs[i].ident \in NameSet(r))}

\* The k-th smallest element of a set of numbers
Kth(S, k) == CHOOSE i \in S : Cardinality({j \in S : j < i}) = k - 1

\* remaining is the unclaimed parameters in their order, each with its type and
\* the placeholder numbered by its position in the original list, from zero
IsPassthroughOf(remaining, r, inputs) ==
    /\ Len(remaining) = Cardinality(Unclaimed(r, inputs))
    /\ \A k \in 1..Len(remaining) :
          /\ remaining[k].ty = inputs[Kth(Unclaimed(r, inputs), k)].ty
          /\ remaining[k].pat = <<"___arg___", ToString(Kth(Unclaimed(r, inputs), k) - 1)>>

\* Every template name is the name of exactly one simply-named parameter
EachNameOnce(r, inputs) ==
    \A n \in NameSet(r) : Cardinality(Occurrences(inputs, n)) = 1

NamesDistinct(r) ==
    \A i, j \in 1..Len(NamesInOrder(r)) :
        i # j => NamesInOrder(r)[i] # NamesInOrder(r)[j]

\* from_route's first check passes: no metadata block under the route macro
ModeAdmitsBlock(w) == input[w].with_aide \/ IsNone(input[w].attr.oapi_options)

HasReceiver(inputs) == \E i \in 1..Len(inputs) : inputs[i].kind = "Receiver"

MissingNames(r, inputs) == {n \in NameSet(r) : Occurrences(inputs, n) = {}}

\* from_route returned this kind of syn::Error on invocation w, naming ident
FailedWith(w, kind, ident) ==
    /\ pc[w] = "failed"
    /\ IsNone(compiled[w])
    /\ IsSome(error[w])
    /\ Unwrap(error[w]).tag = "Err"
    /\ Unwrap(error[w]).kind = kind
    /\ Unwrap(error[w]).ident = ident

\* C3 (as claimed): a template name that is not the name of a simply-named
\* parameter makes from_route fail with an unresolved-binding error naming
\* that identifier.
C3_Original ==
    \A w \in Workers :
        FromRouteRan(w) =>
            \A n \in MissingNames(Unwrap(route[w]), Inputs(w)) :
                FailedWith(w, "unresolved", n)

\* The first position in pass order whose name cannot be bound: no simply-named
\* parameter has it, or an earlier position has claimed it
Unbindable(r, inputs, k) ==
    \/ Occurrences(inputs, NamesInOrder(r)[k]) = {}
    \/ \E j \in 1..(k - 1) : NamesInOrder(r)[j] = NamesInOrder(r)[k]

FirstUnbindable(r, inputs) ==
    NamesInOrder(r)[CHOOSE k \in 1..Len(NamesInOrder(r)) :
                        /\ Unbindable(r, inputs, k)
                        /\ \A j \in 1..(k - 1) : ~Unbindable(r, inputs, j)]

\* C3 (amended): a template with a name that is not the name of a simply-named
\* parameter never yields a CompiledRoute: from_route fails, with the mode
\* error when a metadata block is given under the route macro, and otherwise
\* with an unresolved-binding error naming the first name, in pass order, that
\* is missing or already claimed (the missing identifier itself when it is the
\* only name that cannot be bound).
C3_MissingNameFailsNamingFirst ==
    \A w \in Workers :
        (FromRouteRan(w) /\ MissingNames(Unwrap(route[w]), Inputs(w)) # {}) =>
            IF ModeAdmitsBlock(w)
            THEN FailedWith(w, "unresolved", FirstUnbindable(Unwrap(route[w]), Inputs(w)))
            ELSE FailedWith(w, "mode", <<>>)

\* C3 witness: "/:a?c" against (c: State<String>) alone fails naming a
C3_Witness ==
    \E w \in Workers :
        /\ Lit(w) = <<"/", ":", "a", "?", "c">>
        /\ Len(Inputs(w)) = 1
        /\ Inputs(w)[1].ident = <<"c">>
        /\ FailedWith(w, "unresolved", <<"a">>)

----------------------------------------------------------------------------
(* Claims checked under SpecState *)

\* C5: a route declared `with <STATE>` compiles to a route whose state is
\* exactly <STATE>, and that is the state type of the emitted code, whatever
\* the handler's parameters are.
C5_ExplicitStateWins ==
    \A w \in Workers :
        IsSome(input[w].attr.state) =>
            /\ IsSome(compiled[w]) => Unwrap(compiled[w]).state = Unwrap(input[w].attr.state)
            /\ IsSome(emitted[w]) => Unwrap(emitted[w]).state_type = Unwrap(input[w].attr.state)

\* C5 witness: `with AppState` compiled against (c: State<String>, ..) has state
\* AppState
C5_Witness ==
    \E w \in Workers :
        /\ IsSome(compiled[w])
        /\ input[w].attr.state = Some(PathType("AppState", <<>>))
        /\ Len(Inputs(w)) > 0
        /\ Inputs(w)[1] = Arg(<<"c">>, StateOf(StringType))
        /\ Unwrap(compiled[w]).state = PathType("AppState", <<>>)

\* The parameter's type is a path whose last segment is State<T>: one generic
\* argument, and that argument a type
HasStateShape(arg) ==
    /\ arg.kind = "Typed"
    /\ arg.ty.kind = "Path"
    /\ arg.ty.last = "State"
    /\ Len(arg.ty.args) = 1
    /\ arg.ty.args[1].kind = "Type"

\* C6: without `with <STATE>`, the state of a compiled route is the type
\* argument T of the first parameter, in the order of the original parameter
\* list, whose type is State<T> (a path ending in State with one argument, a
\* type), and () when there is none; parameters claimed by the template and
\* parameters with a pattern that is no simple name count like the others.
C6_GuessedStateIsFirstStateParam ==
    \A w \in Workers :
        (IsSome(compiled[w]) /\ IsNone(input[w].attr.state)) =>
            \/ /\ \A i \in 1..Len(Inputs(w)) : ~HasStateShape(Inputs(w)[i])
               /\ Unwrap(compiled[w]).state = UnitType
            \/ \E i \in 1..Len(Inputs(w)) :
                  /\ HasStateShape(Inputs(w)[i])
                  /\ \A j \in 1..(i - 1) : ~HasStateShape(Inputs(w)[j])
                  /\ Unwrap(compiled[w]).state = Inputs(w)[i].ty.args[1].ty

\* C6 witness: "/s?c" against (l: State<'a>, State(state): State<u32>,
\* c: State<String>) has state u32, from the pattern parameter
C6_Witness ==
    \E w \in Workers :
        /\ IsSome(compiled[w])
        /\ IsNone(input[w].attr.state)
        /\ Lit(w) = <<"/", "s", "?", "c">>
        /\ Inputs(w) = << Arg(<<"l">>, PathType("State", <<LifetimeArg>>)),
                          PatArg(StateOf(U32)),
                          Arg(<<"c">>, StateOf(StringType)) >>
        /\ Unwrap(compiled[w]).state = U32

\* C6 witness, second case: "/s?c" against (c: State<String>, j: Json<u32>):
\* the state comes from the parameter the query claimed
C6_WitnessClaimed ==
    \E w \in Workers :
        /\ IsSome(compiled[w])
        /\ IsNone(input[w].attr.state)
        /\ Lit(w) = <<"/", "s", "?", "c">>
        /\ Len(Inputs(w)) = 2
        /\ Inputs(w)[1] = Arg(<<"c">>, StateOf(StringType))
        /\ Unwrap(compiled[w]).state = StringType

----------------------------------------------------------------------------
(* Claims checked under SpecDocs *)

\* The handler's documentation stream: the values of its doc attributes
Docs(w) == DocIter(input[w].function.attrs)

\* The metadata block as written, all fields None when none is written
Block(w) ==
    IF IsSome(input[w].attr.oapi_options) THEN Unwrap(input[w].attr.oapi_options)
    ELSE EmptyOptions

\* Invocation w compiled in metadata mode
CompiledWithAide(w) == input[w].with_aide /\ IsSome(compiled[w])

\* The merged metadata of a route compiled in metadata mode
Merged(w) == Unwrap(Unwrap(compiled[w]).oapi_options)

\* text is the lines from the third on, joined by "\n" (no line holds a "\n")
IsDescriptionOf(text, lines) ==
    /\ Len(lines) > 2
    /\ IsSome(text)
    /\ Split(Unwrap(text), "\n") = SubSeq(lines, 3, Len(lines))

\* C7: in metadata mode with neither summary nor description given, the merged
\* summary is the first doc line, verbatim, and the merged description is the
\* doc lines from the third on joined with "\n"; for the stream
\* ["Line1", "", "Line2", "Line3"] they are "Line1" and "Line2\nLine3".
C7_SummaryAndDescriptionFromDocs ==
    \A w \in Workers :
        ( /\ CompiledWithAide(w)
          /\ IsNone(Block(w).summary)
          /\ IsNone(Block(w).description) ) =>
            /\ Len(Docs(w)) > 0 => Merged(w).summary = Some(Docs(w)[1])
            /\ Len(Docs(w)) > 2 => IsDescriptionOf(Merged(w).description, Docs(w))
            /\ Docs(w) = << <<"Line1">>, <<>>, <<"Line2">>, <<"Line3">> >> =>
                  /\ Merged(w).summary = Some(<<"Line1">>)
                  /\ Merged(w).description = Some(<<"Line2", "\n", "Line3">>)

\* C7 witness: the stream [" get-summary", "", "Line2", "Line3"] compiled with
\* no block: the summary keeps its leading space
C7_Witness ==
    \E w \in Workers :
        /\ CompiledWithAide(w)
        /\ IsNone(input[w].attr.oapi_options)
        /\ Docs(w) = << <<" ", "get-summary">>, <<>>, <<"Line2">>, <<"Line3">> >>
        /\ Merged(w).summary = Some(<<" ", "get-summary">>)
        /\ Merged(w).description = Some(<<"Line2", "\n", "Line3">>)

\* C7, the stream of the claim itself is compiled
C7_ExampleReached ==
    \E w \in Workers :
        /\ CompiledWithAide(w)
        /\ IsNone(input[w].attr.oapi_options)
        /\ Docs(w) = << <<"Line1">>, <<>>, <<"Line2">>, <<"Line3">> >>

\* C8: the merge is per field, and a given value wins: each of summary,
\* description and id is the block's value when the block gives it, whatever
\* the doc lines and the handler name are, and is derived when the block does
\* not give it (first doc line; doc lines from the third on; handler name),
\* whether or not the other fields are given.
C8_MergeIsPerField ==
    \A w \in Workers :
        CompiledWithAide(w) =>
            /\ IF IsSome(Block(w).summary)
               THEN Merged(w).summary = Block(w).summary
               ELSE Merged(w).summary =
                       (IF Len(Docs(w)) > 0 THEN Some(Docs(w)[1]) ELSE None)
            /\ IF IsSome(Block(w).description)
               THEN Merged(w).description = Block(w).description
               ELSE IF Len(Docs(w)) > 2
               THEN IsDescriptionOf(Merged(w).description, Docs(w))
               ELSE IsNone(Merged(w).description)
            /\ IF IsSome(Block(w).id)
               THEN Merged(w).id = Block(w).id
               ELSE Merged(w).id = Some(input[w].function.ident)

\* C8 witness: summary given, description not, three doc lines: the summary is
\* the given one and the description is the third doc line
C8_Witness ==
    \E w \in Workers :
        /\ CompiledWithAide(w)
        /\ Block(w).summary = Some(<<"MySummary">>)
        /\ IsNone(Block(w).description)
        /\ Docs(w) = << <<"Line1">>, <<"Line2">>, <<"Line3">> >>
        /\ Merged(w).summary = Some(<<"MySummary">>)
        /\ Merged(w).description = Some(<<"Line3">>)

\* The operation id the claim expects for invocation w
ExpectedId(w) ==
    IF IsSome(Block(w).id) THEN Unwrap(Block(w).id) ELSE input[w].function.ident

\* C10: a route compiled in metadata mode has an operation id, the given id
\* or else the handler's name, also when no block is written: in the
\* compiled route's metadata, and in the operation once the route is
\* registered.
C10_OperationIdAlwaysSet ==
    \A w \in Workers :
        CompiledWithAide(w) =>
            /\ IsSome(Unwrap(compiled[w]).oapi_options)
            /\ Merged(w).id = Some(ExpectedId(w))
            /\ pc[w] = "registered" =>
                  /\ IsSome(operation[w])
                  /\ IsNone(Block(w).transform) =>
                        Unwrap(operation[w]).id = Some(ExpectedId(w))

\* C10 witness: api_route without a block, registered with the handler's name
\* as operation id
C10_Witness ==
    \E w \in Workers :
        /\ input[w].with_aide
        /\ IsNone(input[w].attr.oapi_options)
        /\ pc[w] = "registered"
        /\ IsSome(operation[w])
        /\ Unwrap(operation[w]).id = Some(<<"get_hello">>)

----------------------------------------------------------------------------
(* Claims checked under SpecOp *)

\* The body of the transform closure of invocation w, empty when there is none
TransformBody(w) ==
    IF IsSome(Block(w).transform) THEN Unwrap(Block(w).transform).body ELSE <<>>

\* The positions of the transform's calls of this builder method
Setters(w, method) ==
    {k \in 1..Len(TransformBody(w)) : TransformBody(w)[k].method = method}

\* The arguments of the transform's calls of this method, in order
RECURSIVE ArgsOf(_, _)
ArgsOf(calls, method) ==
    IF calls = <<>> THEN <<>>
    ELSE IF Head(calls).method = method
    THEN <<Head(calls).arg>> \o ArgsOf(Tail(calls), method)
    ELSE ArgsOf(Tail(calls), method)

\* The largest element of a non-empty set of numbers
Last(S) == CHOOSE k \in S : \A j \in S : j <= k

\* The field of the operation is what the transform set last, and the merged
\* value when the transform does not set it
FieldAfterTransform(w, method, merged) ==
    IF Setters(w, method) # {}
    THEN Unwrap(operation[w])[method] = Some(TransformBody(w)[Last(Setters(w, method))].arg)
    ELSE Unwrap(operation[w])[method] = merged

\* The merged list of a list-valued field: empty when the block does not give it
MergedList(opt) == IF IsSome(opt) THEN Unwrap(opt) ELSE <<>>

\* C9: in the operation built for an api_route the transform runs after the
\* summary, description, hidden, id, tag, security and response calls: the
\* generated calls end with the transform's body, a field the transform sets
\* has the transform's value, and the fields it does not touch keep their
\* merged values (tags the transform adds come after the block's tags).
C9_TransformRunsLast ==
    \A w \in Workers :
        (pc[w] = "registered" /\ input[w].with_aide) =>
            LET calls == Unwrap(Unwrap(emitted[w]).op_calls)
                body  == TransformBody(w)
            IN  /\ Len(calls) >= Len(body)
                /\ SubSeq(calls, Len(calls) - Len(body) + 1, Len(calls)) = body
                /\ FieldAfterTransform(w, "summary", Merged(w).summary)
                /\ FieldAfterTransform(w, "description", Merged(w).description)
                /\ FieldAfterTransform(w, "hidden", Merged(w).hidden)
                /\ FieldAfterTransform(w, "id", Some(ExpectedId(w)))
                /\ Unwrap(operation[w]).tags =
                      MergedList(Merged(w).tags) \o ArgsOf(body, "tag")
                /\ Unwrap(operation[w]).security = MergedList(Merged(w).security)
                /\ Unwrap(operation[w]).responses = MergedList(Merged(w).responses)

\* C9 witness: summary "MySummary", description "MyDescription", id "MyRoute",
\* tags, and transform |x| x.summary("OverriddenSummary"): the operation has
\* the overridden summary and the block's other values
C9_Witness ==
    \E w \in Workers :
        /\ pc[w] = "registered"
        /\ input[w].with_aide
        /\ Block(w).summary = Some(<<"MySummary">>)
        /\ TransformBody(w) = <<Call("summary", <<"OverriddenSummary">>)>>
        /\ Unwrap(operation[w]).summary = Some(<<"OverriddenSummary">>)
        /\ Unwrap(operation[w]).description = Some(<<"MyDescription">>)
        /\ Unwrap(operation[w]).id = Some(<<"MyRoute">>)
        /\ Unwrap(operation[w]).tags = << <<"MyTag1">>, <<"MyTag2">> >>

\* C11: the merge leaves hidden, tags, security, responses and transform as
\* the block gave them: in every route compiled in metadata mode each of the
\* five is the block's value, unset when the block did not give it, with and
\* without doc comments on the handler.
C11_MergeKeepsOtherFields ==
    \A w \in Workers :
        CompiledWithAide(w) =>
            /\ Merged(w).hidden = Block(w).hidden
            /\ Merged(w).tags = Block(w).tags
            /\ Merged(w).security = Block(w).security
            /\ Merged(w).responses = Block(w).responses
            /\ Merged(w).transform = Block(w).transform

\* C11 witness: a handler with doc comments and a block giving a summary but
\* none of the five: the summary is kept, the description is derived from the
\* docs, and the five are unset after the merge
C11_Witness ==
    \E w \in Workers :
        /\ CompiledWithAide(w)
        /\ Len(Docs(w)) = 3
        /\ Block(w).summary = Some(<<"MySummary">>)
        /\ IsNone(Block(w).tags)
        /\ Merged(w).description = Some(<<" ", "unused-description">>)
        /\ IsNone(Merged(w).hidden)
        /\ IsNone(Merged(w).tags)
        /\ IsNone(Merged(w).security)
        /\ IsNone(Merged(w).responses)
        /\ IsNone(Merged(w).transform)

----------------------------------------------------------------------------
(* Claims checked under SpecDocs: minimal mode *)

\* Some doc attribute of the handler is not of the form #[doc = "..."]
HasMalformedDoc(w) == DocIterPanicsAll(input[w].function.attrs)

\* C12: under the route macro (with_aide false) the merge does not run: once
\* from_route has run, a route written without a block is compiled with
\* oapi_options None, whatever doc attributes the handler has (also one the
\* merge would panic on), and a route written with a block has failed with
\* the mode error and has no CompiledRoute; so every route compiled in this
\* mode has no metadata.
C12_MinimalModeHasNoMetadata ==
    \A w \in Workers :
        (~input[w].with_aide /\ FromRouteRan(w)) =>
            /\ IsSome(compiled[w]) => IsNone(Unwrap(compiled[w]).oapi_options)
            /\ IF IsNone(input[w].attr.oapi_options)
               THEN /\ IsSome(compiled[w])
                    /\ IsNone(Unwrap(compiled[w]).oapi_options)
               ELSE FailedWith(w, "mode", <<>>)

\* C12 witness: route without a block on a handler with doc comments, one of
\* them #[doc(hidden)], compiled with no metadata
C12_Witness ==
    \E w \in Workers :
        /\ ~input[w].with_aide
        /\ IsNone(input[w].attr.oapi_options)
        /\ Len(Docs(w)) = 3
        /\ HasMalformedDoc(w)
        /\ IsSome(compiled[w])
        /\ IsNone(Unwrap(compiled[w]).oapi_options)

\* C12 witness, second case: route with a block has failed with the mode error
C12_WitnessBlock ==
    \E w \in Workers :
        /\ ~input[w].with_aide
        /\ IsSome(input[w].attr.oapi_options)
        /\ Len(Docs(w)) > 0
        /\ FailedWith(w, "mode", <<>>)

----------------------------------------------------------------------------
(* Claims checked under SpecItem *)

\* (id: u32, amount: Option<u32>, offset: Option<u32>, state: State<String>)
ItemParams ==
    << Arg(IdName, U32), Arg(AmountName, OptionOf(U32)),
       Arg(OffsetName, OptionOf(U32)), Arg(StateName, StateOf(StringType)) >>

\* Invocation w is the example: GET "/item/:id?amount&offset" on ItemParams
IsItemExample(w) == Lit(w) = ItemTemplate /\ Inputs(w) = ItemParams

\* The emitted code of the example has the canonical path "/item/:id", the
\* path binding id: u32, the query bindings amount and offset with their
\* types, and state type String
ItemBindings(code) ==
    /\ code.axum_path = <<"/", "i", "t", "e", "m", "/", ":", "i", "d">>
    /\ code.path_extractor = Some(<<[ident |-> IdName, ty |-> U32]>>)
    /\ code.query_struct = Some(<< [ident |-> AmountName, ty |-> OptionOf(U32)],
                                   [ident |-> OffsetName, ty |-> OptionOf(U32)] >>)
    /\ code.query_extractor = Some(<<AmountName, OffsetName>>)
    /\ code.state_type = StringType

\* C13 (as claimed): the example compiles to canonical path "/item/:id", path
\* bindings {id: u32}, query bindings {amount, offset}, state type String and
\* an empty passthrough list.
C13_Original ==
    \A w \in Workers :
        (IsItemExample(w) /\ RouteRan(w)) =>
            /\ IsSome(emitted[w])
            /\ ItemBindings(Unwrap(emitted[w]))
            /\ Unwrap(emitted[w]).remaining = <<>>

\* C13 (amended): the example compiles to canonical path "/item/:id", path
\* bindings {id: u32}, query bindings {amount, offset} with their declared
\* types, state type String, and a passthrough list that holds the one
\* parameter no template name claims, state: State<String>, under the
\* placeholder of its position, ___arg___3.
C13_ItemExample ==
    \A w \in Workers :
        (IsItemExample(w) /\ RouteRan(w)) =>
            /\ IsSome(emitted[w])
            /\ ItemBindings(Unwrap(emitted[w]))
            /\ Unwrap(emitted[w]).remaining =
                  <<[pat |-> <<"___arg___", "3">>, ty |-> StateOf(StringType)]>>

\* C13 witness: the example has been emitted, in minimal mode as in basic.rs
C13_Witness ==
    \E w \in Workers :
        /\ IsItemExample(w)
        /\ ~input[w].with_aide
        /\ IsSome(emitted[w])
        /\ Unwrap(emitted[w]).http_method = <<"get">>
        /\ Len(Unwrap(emitted[w]).remaining) = 1

\* The capture and wildcard names of a template text, in the order written
RECURSIVE CaptureNames(_)
CaptureNames(tokens) ==
    IF tokens = <<>> THEN <<>>
    ELSE IF StartsWith(Head(tokens), ":") \/ StartsWith(Head(tokens), "*")
    THEN <<StripPrefix(Head(tokens))>> \o CaptureNames(Tail(tokens))
    ELSE CaptureNames(Tail(tokens))

\* The names written after the '?' of a template text, in the order written
QueryNamesOf(s) ==
    IF Len(Split(s, "?")) = 2 THEN Split(Split(s, "?")[2], "&") ELSE <<>>

\* The type the handler declares for its parameter called n
DeclaredType(inputs, n) ==
    inputs[CHOOSE i \in 1..Len(inputs) : Named(inputs[i]) /\ inputs[i].ident = n].ty

\* bindings is these names in this order, each with the type declared for it
BindsInOrder(bindings, names, inputs) ==
    /\ Len(bindings) = Len(names)
    /\ \A k \in 1..Len(names) :
          /\ bindings[k].ident = names[k]
          /\ bindings[k].ty = DeclaredType(inputs, names[k])

\* The list an Option holds, empty for None
ListOf(opt) == IF IsSome(opt) THEN Unwrap(opt) ELSE <<>>

\* C14: the wrapper of a compiled route takes, in this order, the path
\* captures in the order of their segments in the template, the query
\* parameters in the order written after '?', and the unclaimed parameters by
\* increasing original position; each capture and query name has the type the
\* handler declares for the parameter of that name, in whatever order the
\* handler declares its parameters.
C14_BindingPlanOrder ==
    \A w \in Workers :
        IsSome(emitted[w]) =>
            LET code == Unwrap(emitted[w])
            IN  /\ BindsInOrder(ListOf(code.path_extractor),
                                CaptureNames(PathTokens(Lit(w))), Inputs(w))
                /\ BindsInOrder(ListOf(code.query_struct), QueryNamesOf(Lit(w)), Inputs(w))
                /\ ListOf(code.query_extractor) = QueryNamesOf(Lit(w))
                /\ IsPassthroughOf(code.remaining, Unwrap(route[w]), Inputs(w))

\* C14 witness: "/item?offset&id" against (State(state): State<String>,
\* id: u32, amount: Option<u32>, offset: Option<u32>): the query bindings are
\* offset then id, the passthrough parameters are positions 0 and 2
C14_Witness ==
    \E w \in Workers :
        /\ IsSome(emitted[w])
        /\ QueryNamesOf(Lit(w)) = <<OffsetName, IdName>>
        /\ Inputs(w) = << StatePattern, Arg(IdName, U32),
                          Arg(AmountName, OptionOf(U32)), Arg(OffsetName, OptionOf(U32)) >>
        /\ Unwrap(emitted[w]).query_struct =
              Some(<< [ident |-> OffsetName, ty |-> OptionOf(U32)],
                      [ident |-> IdName, ty |-> U32] >>)
        /\ Unwrap(emitted[w]).remaining =
              << [pat |-> <<"___arg___", "0">>, ty |-> StateOf(StringType)],
                 [pat |-> <<"___arg___", "2">>, ty |-> OptionOf(U32)] >>

\* C14 witness, path captures: "/:amount/:id?offset" against (id, amount,
\* offset) binds amount before id
C14_WitnessPath ==
    \E w \in Workers :
        /\ IsSome(emitted[w])
        /\ Inputs(w) = << Arg(IdName, U32), Arg(AmountName, OptionOf(U32)),
                          Arg(OffsetName, OptionOf(U32)) >>
        /\ Unwrap(emitted[w]).path_extractor =
              Some(<< [ident |-> AmountName, ty |-> OptionOf(U32)],
                      [ident |-> IdName, ty |-> U32] >>)

----------------------------------------------------------------------------
(* Claims checked under SpecBind: names written twice *)

\* The index, in pass order, of the first name that cannot be bound
FirstUnbindableAt(r, inputs) ==
    CHOOSE k \in 1..Len(NamesInOrder(r)) :
        /\ Unbindable(r, inputs, k)
        /\ \A j \in 1..(k - 1) : ~Unbindable(r, inputs, j)

\* The message from_route gives for position k of the pass order
NotFoundMessage(r, k) ==
    IF k > Len(CaptureList(r.path_params)) THEN ErrQueryParam ELSE ErrPathParam

\* The names a compiled route has bound are pairwise distinct
BoundOnce(c) ==
    \A i, j \in 1..Len(ExtractedIdents(c)) :
        i # j => ExtractedIdents(c)[i] # ExtractedIdents(c)[j]

----------------------------------------------------------------------------
(* Claims checked under Spec: the grammar checks of RouteParser::new *)

\* The number of '?' in a text
QuestionMarks(s) == Cardinality({i \in 1..Len(s) : s[i] = "?"})

\* The text before the first '?', the whole text when there is none
PathPortion(s) == SubSeq(s, 1, FindFrom(s, "?", 1) - 1)

\* Route::parse has returned this grammar error on invocation w: no Route, no
\* CompiledRoute, nothing bound
RejectedWith(w, msg) ==
    /\ FailedWith(w, "grammar", <<>>)
    /\ Unwrap(error[w]).msg = msg
    /\ IsNone(route[w])
    /\ IsNone(emitted[w])

\* C16: once the parser has run, a template with more than one '?' has been
\* rejected with the grammar error for that, and a template with at most one
\* '?' whose path portion does not start with '/' (the empty path included)
\* with the grammar error for the missing '/'; neither has a Route, so nothing
\* was bound. Every template that has a Route has at most one '?' and a path
\* portion starting with '/'.
C16_GrammarChecksComeFirst ==
    \A w \in Workers :
        /\ pc[w] # "attr" =>
              IF QuestionMarks(Lit(w)) > 1
              THEN RejectedWith(w, ErrTooManyQuestionMarks)
              ELSE ~StartsWith(PathPortion(Lit(w)), "/") =>
                      RejectedWith(w, ErrNoLeadingSlash)
        /\ IsSome(route[w]) =>
              /\ QuestionMarks(Lit(w)) <= 1
              /\ StartsWith(PathPortion(Lit(w)), "/")

\* C16 witness: "?a" (empty path, a declared parameter as query name) is
\* rejected for the missing '/'
C16_Witness ==
    \E w \in Workers :
        /\ Lit(w) = <<"?", "a">>
        /\ RejectedWith(w, ErrNoLeadingSlash)

\* C16 witness, second case: "/a?a?" is rejected for its two question marks
C16_WitnessTwoMarks ==
    \E w \in Workers :
        /\ Lit(w) = <<"/", "a", "?", "a", "?">>
        /\ RejectedWith(w, ErrTooManyQuestionMarks)

\* The template passes the checks on '?' and '/', its path tokens are all
\* accepted, and one of the names written after its '?' is empty
HasEmptyQueryName(s) ==
    /\ QuestionMarks(s) = 1
    /\ StartsWith(s, "/")
    /\ \A i \in 1..Len(PathTokens(s)) : ~PathParamNewPanics(PathTokens(s)[i])
    /\ \E i \in 1..Len(QueryNamesOf(s)) : QueryNamesOf(s)[i] = <<>>

\* C17 (as claimed): a template whose query portion holds an empty name
\* ("/a?", "/a?&b", "/a?b&") is rejected with a grammar error returned as a
\* syn::Error; it is neither compiled nor does the macro panic.
C17_EmptyQueryNameIsGrammarError ==
    \A w \in Workers :
        (HasEmptyQueryName(Lit(w)) /\ pc[w] # "attr") =>
            /\ IsNone(compiled[w])
            /\ FailedWith(w, "grammar", <<>>)

----------------------------------------------------------------------------
(* Claims checked under SpecBind: the first error wins *)

\* Some position of the pass order cannot be bound
SomeUnbindable(r, inputs) ==
    \E k \in 1..Len(NamesInOrder(r)) : Unbindable(r, inputs, k)

\* The error of invocation w comes from Route::parse or from from_route
FailedBeforeEmit(w) ==
    /\ pc[w] = "failed"
    /\ Unwrap(error[w]).kind \in {"method", "grammar", "mode", "unresolved"}

C18_WitnessGrammar ==
    \E w \in Workers :
        /\ Lit(w) = <<"/", "*", "b", "/", ":", "a">>
        /\ Inputs(w) = <<>>
        /\ FailedWith(w, "grammar", <<>>)
        /\ Unwrap(error[w]).msg = ErrWildcardNotLast

----------------------------------------------------------------------------
(* Claims checked under SpecItem: parameters without a bindable name *)

\* The parameter is written <name>: <type>
HasBindableName(arg) == arg.kind = "Typed" /\ arg.pat = "Ident"

\* The parameter is typed and its pattern is not a simple name
IsPatternParam(arg) == arg.kind = "Typed" /\ arg.pat # "Ident"

\* The names that parameters with a bindable name carry
BindableNames(inputs) ==
    {inputs[i].ident : i \in {j \in 1..Len(inputs) : HasBindableName(inputs[j])}}

\* The names of the template text of invocation w
TemplateNames(w) ==
    {CaptureNames(PathTokens(Lit(w)))[i] : i \in 1..Len(CaptureNames(PathTokens(Lit(w))))}
    \cup {QueryNamesOf(Lit(w))[i] : i \in 1..Len(QueryNamesOf(Lit(w)))}

\* The parameter at position i (from one) is in the passthrough list under
\* the placeholder of its position, with its type, and the list is in order
PassedThroughAt(remaining, inputs, i) ==
    /\ \E k \in 1..Len(remaining) :
          /\ remaining[k].pat = <<"___arg___", ToString(i - 1)>>
          /\ remaining[k].ty = inputs[i].ty
          /\ \A j \in 1..Len(remaining) : j # k => remaining[j].pat # remaining[k].pat

\* C19 (as claimed): in every successful compilation each receiver and each
\* parameter whose pattern is not a simple name is in the passthrough list at
\* its original position.
C19_Original ==
    \A w \in Workers :
        (IsSome(compiled[w]) /\ RouteRan(w)) =>
            /\ IsSome(emitted[w])
            /\ \A i \in 1..Len(Inputs(w)) :
                  ~HasBindableName(Inputs(w)[i]) =>
                      PassedThroughAt(Unwrap(emitted[w]).remaining, Inputs(w), i)

\* C19 (amended): a receiver and a parameter whose pattern is not a simple
\* name never enter the parameter table and never satisfy a template name: a
\* template with a name that only such a parameter binds does not compile.
\* In every route that is emitted, each parameter whose pattern is not a
\* simple name is in the passthrough list under the placeholder of its
\* original position, with its type. A handler with a receiver is never
\* emitted: when from_route succeeds, remaining_pattypes_numbered panics.
C19_UnnamedParamsPassThrough ==
    \A w \in Workers :
        /\ DOMAIN ArgMap(Inputs(w)) = BindableNames(Inputs(w))
        /\ (FromRouteRan(w) /\ ~(TemplateNames(w) \subseteq BindableNames(Inputs(w)))) =>
              /\ IsNone(compiled[w])
              /\ pc[w] = "failed"
        /\ IsSome(emitted[w]) =>
              /\ ~HasReceiver(Inputs(w))
              /\ \A i \in 1..Len(Inputs(w)) :
                    IsPatternParam(Inputs(w)[i]) =>
                        PassedThroughAt(Unwrap(emitted[w]).remaining, Inputs(w), i)
        /\ (IsSome(compiled[w]) /\ RouteRan(w) /\ HasReceiver(Inputs(w))) =>
              /\ pc[w] = "failed"
              /\ Unwrap(error[w]).tag = "Panic"
              /\ IsNone(emitted[w])

\* C19 witness: "/item/:id" against (Json(json): Json<u32>, id: u32,
\* State(state): State<String>) passes the two patterns through as
\* ___arg___0 and ___arg___2
C19_Witness ==
    \E w \in Workers :
        /\ Inputs(w) = <<JsonPattern, Arg(IdName, U32), StatePattern>>
        /\ IsSome(emitted[w])
        /\ Unwrap(emitted[w]).path_extractor = Some(<<[ident |-> IdName, ty |-> U32]>>)
        /\ Unwrap(emitted[w]).remaining =
              << [pat |-> <<"___arg___", "0">>, ty |-> JsonPattern.ty],
                 [pat |-> <<"___arg___", "2">>, ty |-> StateOf(StringType)] >>

\* C19 witness, second case: "/item?state" against (State(state):
\* State<String>) alone fails: the query name state is not found
C19_WitnessNotBound ==
    \E w \in Workers :
        /\ QueryNamesOf(Lit(w)) = <<StateName>>
        /\ Inputs(w) = <<StatePattern>>
        /\ FailedWith(w, "unresolved", StateName)

\* C19 witness, third case: "/item/:id" against (self, id: u32) compiles and
\* then panics
C19_WitnessReceiver ==
    \E w \in Workers :
        /\ Inputs(w) = <<Receiver, Arg(IdName, U32)>>
        /\ IsSome(compiled[w])
        /\ pc[w] = "failed"
        /\ Unwrap(error[w]).tag = "Panic"

----------------------------------------------------------------------------
(* Claims checked under Spec: the classification of path tokens *)

\* The segment p is what the claim says the token t becomes
ClassifiedAs(p, t) ==
    IF StartsWith(t, ":")
    THEN p.kind = "Capture" /\ p.ident = SubSeq(t, 2, Len(t)) /\ p.lit = SubSeq(t, 2, Len(t))
    ELSE IF StartsWith(t, "*") /\ Len(t) >= 2
    THEN p.kind = "WildCard" /\ p.ident = SubSeq(t, 2, Len(t)) /\ p.lit = SubSeq(t, 2, Len(t))
    ELSE p.kind = "Static" /\ p.lit = t

C20_WitnessEarlyStar ==
    \E w \in Workers :
        /\ Lit(w) = <<"/", "*", "/", "a">>
        /\ RejectedWith(w, ErrWildcardNotLast)

----------------------------------------------------------------------------
(* Claims checked under SpecOp: the shape of the transform closure *)

\* The closure takes one argument, a plain identifier without a type
TakesOneIdent(closure) == Len(closure.inputs) = 1 /\ closure.inputs[1] = "Ident"

\* _route has returned the transform error on invocation w: nothing emitted,
\* nothing registered
TransformRejected(w) ==
    /\ pc[w] = "failed"
    /\ IsSome(error[w])
    /\ Unwrap(error[w]).tag = "Err"
    /\ Unwrap(error[w]).kind = "transform"
    /\ IsNone(emitted[w])
    /\ IsNone(operation[w])

\* C21: in metadata mode, once _route has run, a route whose transform
\* closure does not take exactly one plain identifier has failed with the
\* transform error (expected a single identifier, when the closure has no or
\* several arguments; expected a single identifier without type, when its one
\* argument is typed or a destructuring pattern) and nothing is emitted; a
\* route whose closure takes one identifier is emitted; and a route without a
\* transform never has that error.
C21_TransformTakesOneIdent ==
    \A w \in Workers :
        /\ (input[w].with_aide /\ RouteRan(w) /\ IsSome(Block(w).transform)) =>
              LET closure == Unwrap(Block(w).transform)
              IN  IF TakesOneIdent(closure)
                  THEN IsSome(emitted[w])
                  ELSE /\ TransformRejected(w)
                       /\ Unwrap(error[w]).msg =
                             (IF Len(closure.inputs) # 1 THEN ErrSingleIdent
                              ELSE ErrSingleIdentNoType)
        /\ IsNone(Block(w).transform) =>
              (IsSome(error[w]) => Unwrap(error[w]).kind # "transform")

\* C21 witness: transform |x: T| .. fails with the error for a typed argument
C21_Witness ==
    \E w \in Workers :
        /\ input[w].with_aide
        /\ Block(w).transform = Some(Closure(<<"Type">>, <<>>))
        /\ IsSome(compiled[w])
        /\ TransformRejected(w)
        /\ Unwrap(error[w]).msg = ErrSingleIdentNoType

\* C21 witness, second case: transform |x, y| .. fails with the arity error
C21_WitnessTwoArgs ==
    \E w \in Workers :
        /\ input[w].with_aide
        /\ Block(w).transform = Some(Closure(<<"Ident", "Ident">>, <<>>))
        /\ TransformRejected(w)
        /\ Unwrap(error[w]).msg = ErrSingleIdent

\* C21 witness, third case: a block without transform is registered
C21_WitnessNoTransform ==
    \E w \in Workers :
        /\ input[w].with_aide
        /\ IsSome(input[w].attr.oapi_options)
        /\ IsNone(Block(w).transform)
        /\ pc[w] = "registered"

----------------------------------------------------------------------------
(* Claims checked under SpecItem: the call of the original handler *)

\* What the wrapper holds for the handler's parameter at position i (from
\* one): the extracted variable of that name when the template claims it, the
\* placeholder of its position when it is passed through
ValueForParam(w, i) ==
    IF HasBindableName(Inputs(w)[i]) /\ Inputs(w)[i].ident \in TemplateNames(w)
    THEN Inputs(w)[i].ident
    ELSE <<"___arg___", ToString(i - 1)>>

\* C22 (as claimed): in every emitted route the call of the original handler
\* has one argument per declared parameter, and the argument at position i is
\* the value extracted for, or passed through as, the handler's i-th
\* parameter, in whatever order the handler declares its parameters.
C22_CallMatchesDeclaredOrder ==
    \A w \in Workers :
        IsSome(emitted[w]) =>
            /\ Len(Unwrap(emitted[w]).call_args) = Len(Inputs(w))
            /\ \A i \in 1..Len(Inputs(w)) :
                  Unwrap(emitted[w]).call_args[i] = ValueForParam(w, i)

----------------------------------------------------------------------------
(* Claims checked under SpecDocs: the first two doc lines *)

C23_WitnessTwoLines ==
    \E w \in Workers :
        /\ CompiledWithAide(w)
        /\ IsNone(input[w].attr.oapi_options)
        /\ Docs(w) = << <<"Line1">>, <<"Line2">> >>
        /\ Merged(w).summary = Some(<<"Line1">>)
        /\ IsNone(Merged(w).description)

\* C23 witness, third case: no doc line and no block: neither field
C23_WitnessNoLines ==
    \E w \in Workers :
        /\ CompiledWithAide(w)
        /\ IsNone(input[w].attr.oapi_options)
        /\ Docs(w) = <<>>
        /\ IsNone(Merged(w).summary)
        /\ IsNone(Merged(w).description)

----------------------------------------------------------------------------
(* SpecBatch: a batch of invocations, each at its own position in _route,
   taking their steps in any interleaving *)

BatchSize == 2

\* route(GET "/item/:id?amount&offset") on item_handler: compiles
ItemRoute ==
    Invocation("get", ItemTemplate, None, None,
               Function(<<"item_handler">>, <<>>, ItemParams), FALSE)

\* route(GET "id") on item_handler: the parser rejects the template
NoSlashRoute ==
    Invocation("get", IdName, None, None,
               Function(<<"item_handler">>, <<>>, ItemParams), FALSE)

\* route(GET "/item/:id?amount&offset") on fn only_id(id: u32): from_route
\* does not find amount
UnboundRoute ==
    Invocation("get", ItemTemplate, None, None,
               Function(<<"only_id">>, <<>>, <<Arg(IdName, U32)>>), FALSE)

\* route(GET "/item?offset&id") on fn method(self, offset: .., id: u32):
\* from_route succeeds and the emitter panics
ReceiverRoute ==
    Invocation("get", TemplateOf(<< <<"i", "t", "e", "m">> >>, <<OffsetName, IdName>>),
               None, None,
               Function(<<"method">>, <<>>,
                        <<Receiver, Arg(OffsetName, OptionOf(U32)), Arg(IdName, U32)>>),
               FALSE)

\* api_route(GET "/item?state") on a documented fn get_state(state:
\* State<String>, Json(json): Json<u32>): compiles, with metadata
DocumentedRoute ==
    Invocation("get", TemplateOf(<< <<"i", "t", "e", "m">> >>, <<StateName>>), None, None,
               Function(<<"get_state">>,
                        <<DocAttr(<<"Line1">>), DocAttr(<<>>), DocAttr(<<"Line2">>)>>,
                        <<Arg(StateName, StateOf(StringType)), JsonPattern>>),
               TRUE)

BatchChoices == {ItemRoute, NoSlashRoute, UnboundRoute, ReceiverRoute, DocumentedRoute}

InitBatch == \E inputs \in [1..BatchSize -> BatchChoices] : Start(inputs)

SpecBatch == InitBatch /\ [][Next]_vars

\* _route and the registration run from start to end on one invocation: the
\* position it stops at and everything it produces
RouteAlone(inv) ==
    LET nothing == [pc |-> "failed", route |-> None, compiled |-> None, error |-> None,
                    emitted |-> None, operation |-> None]
        p == RouteParse(inv.attr)
        c == FromRoute(p.route, inv.function, inv.with_aide)
        e == EmitRoute(c.compiled, inv.function, inv.with_aide)
    IN  IF p.tag # "Ok" THEN [nothing EXCEPT !.error = Some(p)]
        ELSE IF c.tag # "Ok"
        THEN [nothing EXCEPT !.route = Some(p.route), !.error = Some(c)]
        ELSE IF e.tag # "Ok"
        THEN [nothing EXCEPT !.route = Some(p.route), !.compiled = Some(c.compiled),
                             !.error = Some(e)]
        ELSE [pc |-> "registered", route |-> Some(p.route), compiled |-> Some(c.compiled),
              error |-> None, emitted |-> Some(e.code),
              operation |-> RegisterRoute(e.code).operation]

----------------------------------------------------------------------------
(* Claims checked under SpecBatch *)

\* What invocation w has produced so far
Produced(w) ==
    [pc |-> pc[w], route |-> route[w], compiled |-> compiled[w], error |-> error[w],
     emitted |-> emitted[w], operation |-> operation[w]]

\* Invocation w has reached the end of its pipeline
Done(w) == pc[w] \in {"failed", "registered"}

\* What invocation w has produced is part of what it produces alone, and all
\* of it once w is done
AsAlone(w) ==
    LET alone == RouteAlone(input[w])
    IN  /\ route[w] \in {None, alone.route}
        /\ compiled[w] \in {None, alone.compiled}
        /\ error[w] \in {None, alone.error}
        /\ emitted[w] \in {None, alone.emitted}
        /\ operation[w] \in {None, alone.operation}
        /\ Done(w) => Produced(w) = alone

\* A step moves one invocation and leaves every other invocation, and every
\* handler's parameter list, as it was
OnlyOneMoves ==
    /\ input' = input
    /\ \E w \in Workers :
          \A v \in Workers \ {w} :
              /\ pc'[v] = pc[v]
              /\ route'[v] = route[v]
              /\ compiled'[v] = compiled[v]
              /\ error'[v] = error[v]
              /\ emitted'[v] = emitted[v]
              /\ operation'[v] = operation[v]

C24_WitnessInterleaved ==
    /\ Len(input) >= 2
    /\ input[1] = DocumentedRoute
    /\ input[2] = ReceiverRoute
    /\ pc[1] = "compiled"
    /\ pc[2] = "failed"
    /\ Unwrap(error[2]).tag = "Panic"
    /\ IsSome(Unwrap(compiled[1]).oapi_options)

====
